---- MODULE Spec2Model ----
(***************************************************************************)
(* Model of the multiScan UDP ingestion driver (src/src/multiscan_driver.cpp):*)
(* the ingestion thread MultiscanNode::run_receiver (connection lifecycle,  *)
(* datagram demultiplexing, CRC gate, ring buffer assembler, frame builder, *)
(* adaptive receive timeout) and the caller's start() / shutdown().         *)
(* Time is counted in whole seconds.  Bytes are numbers 0..255.             *)
(***************************************************************************)
EXTENDS Integers, Sequences, FiniteSets, TLC

VARIABLES
    \* ---- MultiscanNode members
    max_segment_buffering,   \* config.max_segment_buffering
    use_msgpack,             \* config.use_msgpack
    sections_enabled,        \* POINT_FIELD_SECTIONS_ENABLED, fixed when the node is built
    is_running,              \* std::atomic_bool is_running
    joinable,                \* recv_thread.joinable()
    scan_pub,                \* frames handed to scan_pub->publish, oldest first
    imu_pub,                 \* number of messages handed to imu_pub->publish
    \* ---- locals of run_receiver
    pc,                      \* position of the ingestion thread
    tcp_connected,           \* sopas_tcp.isConnected()
    udp_buffer,              \* udp_buffer[0 .. bytes_received)
    bytes_received,
    buffer_size,             \* udp_buffer.size()
    udp_recv_timeout,
    timestamp_last_udp_recv,
    recv_start_timestamp,
    num_bytes_required,
    samples,                 \* the twelve slots, front of a deque = head
    filled_segments,         \* the presence mask
    \* ---- the caller of start() / shutdown()
    main_pc,                 \* position of the calling thread
    n_threads,               \* ingestion threads that exist (created, not ended)
    \* ---- environment
    now,                     \* chrono_system_clock::now()
    wait_since,              \* when the pending Receive or sleep_for was entered
    wire,                    \* chunks of the current datagram still in flight
    cancel,                  \* ForceStop() has unblocked the pending wait
    sopas,                   \* commands sent on the control channel, in order
    \* ---- observation of the run (history only, never read by the program)
    pushed,                  \* per index: segments pushed since the last reset, newest first
    delivered,               \* datagrams delivered so far
    session,                 \* counts of the current Streaming session
    api,                     \* the last call of start() / shutdown() and what it did
    ev                       \* what the last step of the ingestion thread did

vars == << max_segment_buffering, use_msgpack, sections_enabled, is_running, joinable, scan_pub,
           imu_pub, pc, tcp_connected, udp_buffer, bytes_received, buffer_size,
           udp_recv_timeout, timestamp_last_udp_recv, recv_start_timestamp,
           num_bytes_required, samples, filled_segments, main_pc, n_threads,
           now, wait_since, wire, cancel, sopas, pushed, delivered, session, api, ev >>

-----------------------------------------------------------------------------
(* Program constants *)

MS100_SEGMENTS_PER_FRAME == 12
MS100_POINTS_PER_SEGMENT_ECHO == 900
RECV_BUFFER_SIZE == 64 * 1024
MAX_BYTES_REQUIRED == 1024 * 1024
NSEC_PER_SEC == 1000000000
udp_msg_start_seq == << 2, 2, 2, 2 >>
SIZEOF_UINT32 == 4
\* config defaults, in seconds
udp_dropout_reset_thresh == 2
udp_receive_timeout == 1
error_restart_timeout == 3
BLOCKING == -1
\* A value above every length, size and time stamp of the model: stands for
\* every 32-bit value of 2^31 or more and for the initial
\* std::numeric_limits<uint64_t>::max() of the time stamp search.
HUGE == 2147483647

SegIdx == 0 .. (MS100_SEGMENTS_PER_FRAME - 1)

(* Bounds of the model *)

MaxDepth == 2        \* max_segment_buffering is drawn from 1 .. MaxDepth
MaxImu == 1          \* datagrams with an inertial sample in one run
MaxDelivered == 14   \* datagrams delivered in one run
MaxChunks == 3       \* further raw receives one datagram is split over
MaxTime == 4         \* the clock stops here
MaxStall == 3        \* longest stall between two clock reads of one iteration
MaxWire == 2         \* datagrams delivered in one demultiplexer run
MaxLife == 2         \* datagrams delivered in one lifecycle run

-----------------------------------------------------------------------------
(* Arithmetic helpers *)

Min(a, b) == IF a < b THEN a ELSE b

RECURSIVE Pow2(_)
Pow2(n) == IF n = 0 THEN 1 ELSE 2 * Pow2(n - 1)

\* bit i of m
Bit(m, i) == (m \div Pow2(i)) % 2

\* a plausible slip: + where | is meant
BitAdd(m, i) == m + Pow2(i)

\* m | (1 << i)
BitOr(m, i) == IF Bit(m, i) = 1 THEN m ELSE m + Pow2(i)

\* the first n elements of s
Take(s, n) == SubSeq(s, 1, Min(n, Len(s)))

\* s[from .. to) with 0-based offsets, as the iterator range [begin+from, begin+to)
Range0(s, from, to) == SubSeq(s, from + 1, to)

-----------------------------------------------------------------------------
(* Wire format helpers (library code of sick_scan_xd) *)

\* the sender's little-endian encoding of a 32-bit value
Enc4(n) == << n % 256, (n \div 256) % 256, (n \div 65536) % 256, (n \div 16777216) % 256 >>

\* (v + c) mod 2^32 for the 32-bit value v at offset off, computed on the low
\* 24 bits and the high byte apart; a result of 2^31 or more is HUGE.
Convert4BytePlus(buf, off, c) ==
    LET lo    == buf[off + 1] + 256 * buf[off + 2] + 65536 * buf[off + 3] + c
        hi    == (buf[off + 4] + (lo \div 16777216)) % 256
    IN  IF hi < 128 THEN 16777216 * hi + (lo % 16777216) ELSE HUGE

\* Convert4Byte: the little-endian 32-bit value at offset off (0-based)
Convert4Byte(buf, off) == Convert4BytePlus(buf, off, 0)

\* crc32: a 32-bit checksum of a byte sequence.  Position-weighted, so that a
\* change of any single bit of any byte and a change of the length change the
\* value; it stays far below 2^32 for the lengths of the model.
RECURSIVE crc32sum(_, _)
crc32sum(data, k) ==
    IF k = 0 THEN 0 ELSE crc32sum(data, k - 1) + k * (data[k] + 1)

crc32(data) == crc32sum(data, Len(data))

-----------------------------------------------------------------------------
(* Segment decoder (library code of sick_scan_xd).  A segment body is the    *)
(* five bytes << segment index, seconds, nanoseconds / NSEC_UNIT, number of  *)
(* point groups, flags >>; flags 1 = a valid inertial sample, 2 and above =  *)
(* undecodable.  Every point group holds MS100_POINTS_PER_SEGMENT_ECHO points.*)

BODY_LEN == 5
NSEC_UNIT == 4000000
MSGPACK_HEADER_LEN == 8     \* resync marker + payload length
COMPACT_HEADER_LEN == 12    \* resync marker + command id + size of the module

ParseFailed == [ok |-> FALSE]

ParseBody(buf, off) ==
    IF Len(buf) < off + BODY_LEN \/ buf[off + 5] >= 2
    THEN ParseFailed
    ELSE [ok             |-> TRUE,
          segmentIndex   |-> buf[off + 1],
          timestamp_sec  |-> buf[off + 2],
          timestamp_nsec |-> buf[off + 3] * NSEC_UNIT,
          scandata       |-> [g \in 1 .. buf[off + 4] |-> MS100_POINTS_PER_SEGMENT_ECHO],
          imu_valid      |-> buf[off + 5] = 1]

\* MsgPackParser::Parse / CompactDataParser::Parse
Parse(buf, msgpack) ==
    ParseBody(buf, IF msgpack THEN MSGPACK_HEADER_LEN ELSE COMPACT_HEADER_LEN)

\* CompactDataParser::ParseSegment, the probe: success with the payload
\* length, or failure with the number of bytes required
ParseSegment(buf, n) ==
    IF n < COMPACT_HEADER_LEN \/ Convert4Byte(buf, 4) # 1
    THEN [ok |-> FALSE, payload_length_bytes |-> 0, num_bytes_required |-> COMPACT_HEADER_LEN]
    ELSE LET required == Convert4BytePlus(buf, 8, COMPACT_HEADER_LEN)
         IN  IF required > n
             THEN [ok |-> FALSE, payload_length_bytes |-> 0, num_bytes_required |-> required]
             ELSE [ok |-> TRUE, payload_length_bytes |-> required, num_bytes_required |-> required]

-----------------------------------------------------------------------------
(* Point layout: POINT_FIELD_SECTIONS_ENABLED and the field counts *)

POINT_FIELD_ENABLE_UP_TO_XYZ == 0
POINT_FIELD_ENABLE_UP_TO_INTENSITY == 1
POINT_FIELD_ENABLE_UP_TO_RANGE == 2
POINT_FIELD_ENABLE_UP_TO_ANGULAR == 3
POINT_FIELD_ENABLE_UP_TO_POINT_IDX == 4
POINT_FIELD_ENABLE_TS == 8
POINT_FIELD_ENABLE_REFLECTOR == 16

\* POINT_FIELD_ENABLE_ALL, the value of POINT_FIELD_SECTIONS_ENABLED unless
\* the build defines another
POINT_FIELD_SECTIONS_ENABLED == 28

B2I(c) == IF c THEN 1 ELSE 0

\* (sections & 4)
And4(sections) == 4 * Bit(sections, 2)

NUM_CONTIGUOUS_POINT_FIELDS(sections) ==
    3 + B2I(And4(sections) >= 1) + B2I(And4(sections) >= 2)
      + B2I(And4(sections) >= 3) * 2 + B2I(And4(sections) >= 4) * 3

NUM_POINT_FIELDS(sections) ==
    NUM_CONTIGUOUS_POINT_FIELDS(sections)
      + B2I(Bit(sections, 3) = 1) * 2 + B2I(Bit(sections, 4) = 1)

\* the number of PointField entries the constructor puts in scan_fields
NumScanFields(sections) ==
    3 + B2I(And4(sections) >= POINT_FIELD_ENABLE_UP_TO_INTENSITY)
      + B2I(And4(sections) >= POINT_FIELD_ENABLE_UP_TO_RANGE)
      + B2I(And4(sections) >= POINT_FIELD_ENABLE_UP_TO_ANGULAR) * 2
      + B2I(And4(sections) >= POINT_FIELD_ENABLE_UP_TO_POINT_IDX) * 3
      + B2I(Bit(sections, 3) = 1) * 2 + B2I(Bit(sections, 4) = 1)

POINT_BYTE_LEN == NUM_POINT_FIELDS(sections_enabled) * 4

POINT_CONTINUOUS_BYTE_LEN(sections) == NUM_CONTIGUOUS_POINT_FIELDS(sections) * 4

Field(name, offset) == [name |-> name, offset |-> offset]

\* scan_fields as the constructor fills it: name and byte offset of every
\* field; each field is 4 bytes long
ScanFields(sections) ==
    { Field("x", 0), Field("y", 4), Field("z", 8) }
    \cup (IF And4(sections) >= POINT_FIELD_ENABLE_UP_TO_INTENSITY
          THEN { Field("intensity", 12) } ELSE {})
    \cup (IF And4(sections) >= POINT_FIELD_ENABLE_UP_TO_RANGE
          THEN { Field("range", 16) } ELSE {})
    \cup (IF And4(sections) >= POINT_FIELD_ENABLE_UP_TO_ANGULAR
          THEN { Field("azimuth", 20), Field("elevation", 24) } ELSE {})
    \cup (IF And4(sections) >= POINT_FIELD_ENABLE_UP_TO_POINT_IDX
          THEN { Field("layer", 28), Field("echo", 32), Field("index", 36) } ELSE {})
    \cup (IF Bit(sections, 3) = 1
          THEN { Field("tl", 4 * NUM_CONTIGUOUS_POINT_FIELDS(sections)),
                 Field("th", 4 * NUM_CONTIGUOUS_POINT_FIELDS(sections) + 4) }
          ELSE {})
    \cup (IF Bit(sections, 4) = 1
          THEN { Field("reflective", 4 * NUM_CONTIGUOUS_POINT_FIELDS(sections)
                                        + 8 * B2I(Bit(sections, 3) = 1)) }
          ELSE {})

Write(what, from, len) == [what |-> what, from |-> from, len |-> len]

\* the writes the frame builder makes into the record of one point, relative
\* to its start: the memcpy of the contiguous block, the 64-bit time stamp
\* through a uint64_t pointer indexed by POINT_CONTINUOUS_BYTE_LEN / 8, the
\* reflectivity through a float pointer
PointWrites(sections) ==
    { Write("point", 0, POINT_CONTINUOUS_BYTE_LEN(sections)) }
    \cup (IF Bit(sections, 3) = 1
          THEN { Write("lidar_timestamp_microsec",
                       (POINT_CONTINUOUS_BYTE_LEN(sections) \div 8) * 8, 8) }
          ELSE {})
    \cup (IF Bit(sections, 4) = 1
          THEN { Write("reflectorbit",
                       ((POINT_CONTINUOUS_BYTE_LEN(sections) \div 4)
                            + B2I(Bit(sections, 3) = 1) * 2) * 4, 4) }
          ELSE {})

-----------------------------------------------------------------------------
(* Ring buffer assembler and frame builder *)

NoSamples == [i \in SegIdx |-> << >>]

\* a default-constructed ScanSegmentParserOutput, as emplace_front() makes it
EmptyEntry ==
    [scandata |-> << >>, timestamp_sec |-> 0, timestamp_nsec |-> 0, segmentIndex |-> 0,
     imu_valid |-> FALSE]

\* a plausible slip: std::swap of the whole segment, inertial sample included
swapSegments(front, seg) ==
    [scandata       |-> seg.scandata,
     timestamp_sec  |-> seg.timestamp_sec,
     timestamp_nsec |-> seg.timestamp_nsec,
     segmentIndex   |-> seg.segmentIndex,
     imu_valid      |-> seg.imu_valid]

\* swapSegmentsNoIMU(front, segment): what the front element holds afterwards;
\* imudata is not among the members that are swapped
swapSegmentsNoIMU(front, seg) ==
    [scandata       |-> seg.scandata,
     timestamp_sec  |-> seg.timestamp_sec,
     timestamp_nsec |-> seg.timestamp_nsec,
     segmentIndex   |-> seg.segmentIndex,
     imu_valid      |-> front.imu_valid]

\* a plausible slip: the resize comes before the emplace_front
ResizeThenPush(slots, seg, depth) ==
    LET idx == seg.segmentIndex
        q0  == slots[idx]
        q1  == IF Len(q0) > depth THEN SubSeq(q0, 1, depth) ELSE q0
    IN  [slots EXCEPT ![idx] = << swapSegmentsNoIMU(EmptyEntry, seg) >> \o q1]

\* static_cast<size_t>(n) of an int: a negative value becomes a huge one
SizeT(n) == IF n < 0 THEN HUGE ELSE n

\* emplace_front, resize to the configured depth, swap into the front.  When
\* the resize has emptied the deque, front() refers to no element: the swap
\* writes outside the deque and the deque stays empty.
PushSegment(slots, seg, depth) ==
    LET idx == seg.segmentIndex
        q1  == << EmptyEntry >> \o slots[idx]
        q2  == IF Len(q1) > SizeT(depth) THEN SubSeq(q1, 1, depth) ELSE q1
    IN  [slots EXCEPT ![idx] = IF q2 = << >> THEN << >>
                               ELSE [q2 EXCEPT ![1] = swapSegmentsNoIMU(q2[1], seg)]]

\* a plausible slip: > where >= is meant, the full mask is never enough
FrameCompleteStrict(mask) == mask > Pow2(MS100_SEGMENTS_PER_FRAME) - 1

\* the trigger test of the frame builder
FrameComplete(mask) == mask >= Pow2(MS100_SEGMENTS_PER_FRAME) - 1

RECURSIVE SumSeq(_, _)
SumSeq(s, k) == IF k = 0 THEN 0 ELSE SumSeq(s, k - 1) + s[k]

\* number of points of one segment: groups -> scanlines -> points
NumPoints(seg) == SumSeq(seg.scandata, Len(seg.scandata))

SegmentTs(seg) == seg.timestamp_sec * NSEC_PER_SEC + seg.timestamp_nsec

\* a plausible slip: the frame takes the time stamp of the first slot
FirstSlotTs(slots, k) == SegmentTs(Head(slots[0]))

\* earliest_ts after the loop has visited the slots 0 .. k-1
RECURSIVE EarliestTs(_, _)
EarliestTs(slots, k) ==
    IF k = 0 THEN HUGE
    ELSE LET e  == EarliestTs(slots, k - 1)
             ts == SegmentTs(Head(slots[k - 1]))
         IN  IF ts < e THEN ts ELSE e

\* a plausible slip: the buffer is resized, not reserved, to the nominal size
NominalDataSize(slots, k) ==
    MS100_POINTS_PER_SEGMENT_ECHO * MS100_SEGMENTS_PER_FRAME * POINT_BYTE_LEN

\* scan.data.size() after the loop has visited the slots 0 .. k-1
RECURSIVE DataSize(_, _)
DataSize(slots, k) ==
    IF k = 0 THEN 0
    ELSE DataSize(slots, k - 1) + NumPoints(Head(slots[k - 1])) * POINT_BYTE_LEN

\* a plausible slip: back() where front() is meant
BuildFrameFromBack(slots) ==
    LET backs == [i \in SegIdx |-> << slots[i][Len(slots[i])] >>]
    IN  [stamp_sec  |-> EarliestTs(backs, MS100_SEGMENTS_PER_FRAME) \div NSEC_PER_SEC,
         stamp_nsec |-> EarliestTs(backs, MS100_SEGMENTS_PER_FRAME) % NSEC_PER_SEC,
         fields     |-> NumScanFields(sections_enabled),
         scan_fields |-> ScanFields(sections_enabled),
         writes     |-> PointWrites(sections_enabled),
         point_step |-> POINT_BYTE_LEN,
         row_step   |-> DataSize(backs, MS100_SEGMENTS_PER_FRAME),
         height     |-> 1,
         width      |-> DataSize(backs, MS100_SEGMENTS_PER_FRAME) \div POINT_BYTE_LEN,
         segments   |-> [i \in SegIdx |-> Head(backs[i])]]

\* the PointCloud2 message that is published; "segments" names, in the order
\* of the data, the slot entries whose points the data holds
BuildFrame(slots) ==
    LET earliest_ts == EarliestTs(slots, MS100_SEGMENTS_PER_FRAME)
        size        == DataSize(slots, MS100_SEGMENTS_PER_FRAME)
    IN  [stamp_sec  |-> earliest_ts \div NSEC_PER_SEC,
         stamp_nsec |-> earliest_ts % NSEC_PER_SEC,
         fields     |-> NumScanFields(sections_enabled),
         scan_fields |-> ScanFields(sections_enabled),
         writes     |-> PointWrites(sections_enabled),
         point_step |-> POINT_BYTE_LEN,
         row_step   |-> size,
         height     |-> 1,
         width      |-> size \div POINT_BYTE_LEN,
         segments   |-> [i \in SegIdx |-> Head(slots[i])]]

-----------------------------------------------------------------------------
(* One iteration of the streaming loop from the CRC check on: what it does  *)
(* to the slots, the mask and the outputs.                                   *)

\* outputs lists the publish calls of the iteration in the order of the code:
\* imu_pub->publish comes before the push and before scan_pub->publish
Outcome(fate, slots, mask, frames, imu, seg) ==
    [fate |-> fate, samples |-> slots, filled_segments |-> mask,
     frames |-> frames, imu |-> imu, seg |-> seg, no_front |-> FALSE,
     outputs |-> (IF imu > 0 THEN << "imu" >> ELSE << >>)
                     \o [k \in 1 .. Len(frames) |-> "frame"]]

\* a plausible slip: the frame builder leaves the queues and the mask as they are
AssembleNoReset(seg, slots, mask, depth) ==
    LET has_points == Len(seg.scandata) > 0
        slots1 == IF has_points THEN PushSegment(slots, seg, depth) ELSE slots
        mask1  == IF has_points THEN BitOr(mask, seg.segmentIndex) ELSE mask
        imu    == B2I(seg.imu_valid)
    IN  IF FrameComplete(mask1)
        THEN Outcome("frame", slots1, mask1, << BuildFrame(slots1) >>, imu, seg)
        ELSE Outcome("accepted", slots1, mask1, << >>, imu, seg)

\* what front() yields for each slot: for an empty deque it refers to no
\* element, and what is read there is indeterminate; an entry without points
\* stands for it
Fronts(slots) ==
    [i \in SegIdx |-> IF slots[i] = << >> THEN << EmptyEntry >> ELSE slots[i]]

\* the segment was decoded: inertial output, push, frame builder; no_front
\* tells that front() was called on an empty deque
Assemble(seg, slots, mask, depth) ==
    LET has_points == Len(seg.scandata) > 0
        slots1 == IF has_points THEN PushSegment(slots, seg, depth) ELSE slots
        mask1  == IF has_points THEN BitOr(mask, seg.segmentIndex) ELSE mask
        imu    == B2I(seg.imu_valid)
        pushed_to_none == has_points /\ slots1[seg.segmentIndex] = << >>
    IN  IF FrameComplete(mask1)
        THEN [Outcome("frame", NoSamples, 0, << BuildFrame(Fronts(slots1)) >>, imu, seg)
                 EXCEPT !.no_front = \E i \in SegIdx : slots1[i] = << >>]
        ELSE [Outcome("accepted", slots1, mask1, << >>, imu, seg)
                 EXCEPT !.no_front = pushed_to_none]

\* a plausible slip: only the low byte of the two checksums is compared
CrcLowByteMatches(stored, computed) == stored % 256 = computed % 256

\* if(u32PayloadCRC != u32MsgPackCRC) ... continue
CrcMatches(stored, computed) == stored = computed

\* the CRC gate and the decoder
CrcAndDecode(buf, n, msgpack, offset, bytes_to_receive, slots, mask, depth) ==
    LET bytes_valid == Min(n, bytes_to_receive)
    IN  IF bytes_valid - SIZEOF_UINT32 < offset
        THEN \* the iterator range of msgpack_payload is reversed
             Outcome("fault", slots, mask, << >>, 0, ParseFailed)
        ELSE LET u32PayloadCRC   == Convert4Byte(buf, bytes_valid - SIZEOF_UINT32)
                 msgpack_payload == Range0(buf, offset, bytes_valid - SIZEOF_UINT32)
                 u32MsgPackCRC   == crc32(msgpack_payload)
             IN  IF ~CrcMatches(u32PayloadCRC, u32MsgPackCRC)
                 THEN Outcome("crc_fail", slots, mask, << >>, 0, ParseFailed)
                 ELSE LET seg == Parse(buf, msgpack)
                      IN  IF ~seg.ok
                          THEN Outcome("decode_fail", slots, mask, << >>, 0, seg)
                          ELSE Assemble(seg, slots, mask, depth)

\* a plausible slip: the comparison the other way round
NextTimeoutInverted(t1, t2) ==
    IF t2 - t1 < udp_dropout_reset_thresh THEN BLOCKING ELSE udp_receive_timeout

\* the adaptive receive timeout, from the two clock reads t1 <= t2
NextTimeout(t1, t2) ==
    IF t2 - t1 > udp_dropout_reset_thresh THEN BLOCKING ELSE udp_receive_timeout

\* a plausible slip: the loop tests the running flag only
LoopTestRunningOnly(running, connected) ==
    IF running THEN "call_recv" ELSE "stopping"

\* while(this->is_running && sopas_tcp.isConnected()): on to the call of the
\* outer Receive, or out of the loop
LoopTest(running, connected) ==
    IF running /\ connected THEN "call_recv" ELSE "stopping"

\* the condition of the streaming loop
LoopPc == LoopTest(is_running, tcp_connected)

\* the time limit of the chunk accumulation, read at time t
TimeOk(t, start) == udp_recv_timeout < 0 \/ t - start < udp_recv_timeout

-----------------------------------------------------------------------------
(* History kept for the properties *)

NoPushed == [i \in SegIdx |-> << >>]
\* the session so far: segments with point groups pushed, their points, whether
\* an index was pushed twice before a frame, frames built, whether a datagram
\* has passed the CRC check and the decoder, whether the control channel
\* was lost, and whether a segment was pushed in an earlier session of the run
NewSession ==
    [segs |-> 0, pts |-> 0, dup |-> FALSE, frames |-> 0, decoded |-> FALSE,
     lost |-> FALSE, earlier |-> FALSE]
\* what the sender knows of a datagram: its class and, where the properties
\* need them, the bytes as they were sent
Tag(kind, sent) == [kind |-> kind, sent |-> sent]
\* the last event of the streaming loop; fronts is, for a frame, the newest
\* segment pushed to each index since the last reset; outputs is what the
\* iteration published, in order
Ev(fate, tag, chunks, touched) ==
    [fate |-> fate, tag |-> tag, chunks |-> chunks, touched |-> touched,
     fronts |-> << >>, outputs |-> << >>]
NoEv == Ev("none", Tag("none", << >>), 0, {})

Touched(p) == {i \in SegIdx : p[i] # << >>}

PushedAfter(out) ==
    IF out.fate \in {"accepted", "frame"} /\ Len(out.seg.scandata) > 0
    THEN [pushed EXCEPT ![out.seg.segmentIndex] =
              << swapSegmentsNoIMU(EmptyEntry, out.seg) >> \o @]
    ELSE pushed

SessionAfter(out) ==
    IF out.fate \in {"accepted", "frame"} /\ Len(out.seg.scandata) > 0
    THEN [segs    |-> session.segs + 1,
          pts     |-> session.pts + NumPoints(out.seg),
          dup     |-> session.dup \/ pushed[out.seg.segmentIndex] # << >>,
          frames  |-> session.frames + Len(out.frames),
          decoded |-> TRUE,
          lost    |-> session.lost,
          earlier |-> session.earlier]
    ELSE [session EXCEPT !.decoded = @ \/ out.fate \in {"accepted", "frame"}]

-----------------------------------------------------------------------------
(* The ways an iteration of the streaming loop ends.  Each sets the locals  *)
(* of run_receiver, the outputs, the clock and the history.                  *)

configVars == << max_segment_buffering, use_msgpack, sections_enabled >>
callerVars == << is_running, joinable, main_pc, n_threads, api >>

\* CRC check, decode, assemble, timeout update, back to the loop condition.
\* stall is the time between the two clock reads of the timeout update; ub
\* is what the reversed iterator range does.
Process(buf, n, offset, bytes_to_receive, tag, chunks, stall, ub) ==
    \E out \in {CrcAndDecode(buf, n, use_msgpack, offset, bytes_to_receive,
                             samples, filled_segments, max_segment_buffering)} :
      \E p1 \in {PushedAfter(out)} :
        LET done == out.fate \in {"accepted", "frame"}
        IN  /\ samples' = out.samples
            /\ filled_segments' = out.filled_segments
            /\ scan_pub' = scan_pub \o out.frames
            /\ imu_pub' = imu_pub + out.imu
            /\ pushed' = IF out.fate = "frame" THEN NoPushed ELSE p1
            /\ session' = SessionAfter(out)
            /\ ev' = [Ev(out.fate, tag, chunks, Touched(p1)) EXCEPT
                          !.fronts = IF out.fate = "frame"
                                     THEN [i \in SegIdx |-> Head(p1[i])]
                                     ELSE << >>,
                          !.outputs = out.outputs]
            /\ now' = IF done THEN now + stall ELSE now
            /\ timestamp_last_udp_recv' = IF done THEN now ELSE timestamp_last_udp_recv
            /\ udp_recv_timeout' = IF done THEN NextTimeout(now, now + stall)
                                   ELSE udp_recv_timeout
            /\ pc' = IF out.fate = "fault"
                     THEN (IF ub = "throw" THEN "stopping" ELSE "crashed")
                     ELSE IF out.no_front /\ ub = "crash" THEN "crashed"
                     ELSE LoopPc
            /\ wait_since' = now'
            /\ udp_buffer' = << >>
            /\ bytes_received' = 0
            /\ recv_start_timestamp' = 0
            /\ num_bytes_required' = 0

\* a plausible slip: the clock is refreshed by every receive that returns
DropRefreshing(fate, tag, chunks) ==
    /\ pc' = LoopPc
    /\ ev' = Ev(fate, tag, chunks, Touched(pushed))
    /\ wait_since' = now
    /\ udp_buffer' = << >>
    /\ bytes_received' = 0
    /\ recv_start_timestamp' = 0
    /\ num_bytes_required' = 0
    /\ timestamp_last_udp_recv' = now
    /\ UNCHANGED << samples, filled_segments, scan_pub, imu_pub, pushed, session,
                    now, udp_recv_timeout >>

\* the datagram is dropped before the CRC check: nothing but the position changes
Drop(fate, tag, chunks) ==
    /\ pc' = LoopPc
    /\ ev' = Ev(fate, tag, chunks, Touched(pushed))
    /\ wait_since' = now
    /\ udp_buffer' = << >>
    /\ bytes_received' = 0
    /\ recv_start_timestamp' = 0
    /\ num_bytes_required' = 0
    /\ UNCHANGED << samples, filled_segments, scan_pub, imu_pub, pushed, session,
                    now, timestamp_last_udp_recv, udp_recv_timeout >>

\* the accumulation goes on: on to the call of the chunk Receive, or spinning
Wait(where, buf, n, start, required, tag, chunks) ==
    /\ pc' = where
    /\ ev' = Ev("accumulating", tag, chunks, Touched(pushed))
    /\ wait_since' = now
    /\ udp_buffer' = buf
    /\ bytes_received' = n
    /\ recv_start_timestamp' = start
    /\ num_bytes_required' = required
    /\ UNCHANGED << samples, filled_segments, scan_pub, imu_pub, pushed, session,
                    now, timestamp_last_udp_recv, udp_recv_timeout >>

\* a plausible slip: >= where > is meant, 1 MiB itself is refused
OverCapInclusive(required) == required >= MAX_BYTES_REQUIRED

\* if(num_bytes_required > 1024 * 1024)
OverCap(required) == required > MAX_BYTES_REQUIRED

\* the condition of the inner loop that receives chunks
NeedChunk(n, start, required) ==
    is_running /\ n < required + SIZEOF_UINT32 /\ TimeOk(now, start)

\* the accumulation loop of the probe-based encoding, from its condition on
Accumulate(buf, n, start, tag, chunks, stall, ub) ==
    \E pr \in {ParseSegment(buf, n)} :
        IF ~is_running
        THEN Drop("abandoned", tag, chunks)
        ELSE IF pr.ok
        THEN Process(buf, n, 0, pr.payload_length_bytes + SIZEOF_UINT32,
                     tag, chunks, stall, ub)
        ELSE IF ~TimeOk(now, start)
        THEN Drop("abandoned", tag, chunks)
        ELSE IF OverCap(pr.num_bytes_required)
        THEN Drop("abandoned_cap", tag, chunks)
        ELSE IF NeedChunk(n, start, pr.num_bytes_required)
        THEN Wait("call_chunk", buf, n, start, pr.num_bytes_required, tag, chunks)
        ELSE Wait("spin", buf, n, start, pr.num_bytes_required, tag, chunks)

\* a datagram of n bytes is in the buffer: the test of the resync marker,
\* then the length of the message by the configured encoding
Demultiplex(buf, n, tag, stall, ub) ==
    IF ~(n > Len(udp_msg_start_seq) + 8
         /\ SubSeq(buf, 1, Len(udp_msg_start_seq)) = udp_msg_start_seq)
    THEN Drop("skipped", tag, 0)
    ELSE IF use_msgpack
    THEN Process(buf, n, Len(udp_msg_start_seq) + SIZEOF_UINT32,
                 Convert4BytePlus(buf, Len(udp_msg_start_seq),
                                  Len(udp_msg_start_seq) + 2 * SIZEOF_UINT32),
                 tag, 0, stall, ub)
    ELSE Accumulate(buf, n, now, tag, 0, stall, ub)

-----------------------------------------------------------------------------
(* start() and shutdown(), called one after the other by the owner of the node *)

threadVars == << pc, tcp_connected, udp_buffer, bytes_received, buffer_size,
                 udp_recv_timeout, timestamp_last_udp_recv, recv_start_timestamp,
                 num_bytes_required, samples, filled_segments, scan_pub, imu_pub,
                 sopas, pushed, delivered, session, ev, wire >>

\* a plausible slip: start() without its test
MayStartUnchecked == TRUE

\* the test start() makes before it creates the thread
MayStart == ~joinable

Start ==
    /\ main_pc = "idle"
    /\ IF MayStart
       THEN /\ is_running' = TRUE
            /\ joinable' = TRUE
            /\ pc' = "top"
            /\ n_threads' = n_threads + 1
            /\ api' = "start_created"
            /\ ev' = NoEv
       ELSE /\ api' = "start_noop"
            /\ UNCHANGED << is_running, joinable, pc, n_threads, ev >>
    /\ UNCHANGED << configVars, main_pc, now, wait_since, cancel, tcp_connected,
                    udp_buffer, bytes_received, buffer_size, udp_recv_timeout,
                    timestamp_last_udp_recv, recv_start_timestamp,
                    num_bytes_required, samples, filled_segments, scan_pub,
                    imu_pub, sopas, pushed, delivered, session, wire >>

\* shutdown(): the test and the store to is_running
ShutdownBegin ==
    /\ main_pc = "idle"
    /\ IF is_running \/ joinable
       THEN is_running' = FALSE /\ main_pc' = "sd_forcestop" /\ api' = "shutdown"
       ELSE api' = "shutdown_noop" /\ UNCHANGED << is_running, main_pc >>
    /\ UNCHANGED << configVars, joinable, n_threads, now, wait_since, cancel,
                    threadVars >>

\* shutdown(): udp_recv_socket.ForceStop() unblocks the wait that is pending
ForceStop ==
    /\ main_pc = "sd_forcestop"
    /\ main_pc' = "sd_join"
    /\ cancel' = (pc \in {"recv", "chunk"})
    /\ UNCHANGED << configVars, is_running, joinable, n_threads, api, now,
                    wait_since, threadVars >>

\* shutdown(): recv_thread.join(), which throws when the thread is not joinable
Join ==
    /\ main_pc = "sd_join"
    /\ IF joinable
       THEN pc = "exit" /\ pc' = "none" /\ joinable' = FALSE /\ main_pc' = "idle"
       ELSE main_pc' = "threw" /\ UNCHANGED << pc, joinable >>
    /\ UNCHANGED << configVars, is_running, n_threads, api, now, wait_since, cancel,
                    tcp_connected, udp_buffer, bytes_received, buffer_size,
                    udp_recv_timeout, timestamp_last_udp_recv, recv_start_timestamp,
                    num_bytes_required, samples, filled_segments, scan_pub,
                    imu_pub, sopas, pushed, delivered, session, ev, wire >>

-----------------------------------------------------------------------------
(* run_receiver outside the streaming loop *)

lifeUnchanged == << configVars, callerVars, now, cancel, udp_buffer, bytes_received,
                    recv_start_timestamp, num_bytes_required, scan_pub, imu_pub,
                    delivered, wire >>

\* while(this->is_running)
ThreadTop ==
    /\ pc = "top"
    /\ pc' = IF is_running THEN "udp_init" ELSE "exit"
    /\ n_threads' = IF is_running THEN n_threads ELSE n_threads - 1
    /\ UNCHANGED << configVars, is_running, joinable, main_pc, api, now, wait_since,
                    cancel, tcp_connected, udp_buffer, bytes_received, buffer_size,
                    udp_recv_timeout, timestamp_last_udp_recv, recv_start_timestamp,
                    num_bytes_required, samples, filled_segments, scan_pub,
                    imu_pub, sopas, pushed, delivered, session, ev, wire >>

\* udp_recv_socket.Init
UdpInit(ok) ==
    /\ pc = "udp_init"
    /\ pc' = IF ok THEN "handshake" ELSE "backoff"
    /\ UNCHANGED << lifeUnchanged, wait_since, tcp_connected, buffer_size,
                    udp_recv_timeout, timestamp_last_udp_recv, samples,
                    filled_segments, sopas, pushed, session, ev >>

\* a plausible slip: the slots and the mask outlive the session, as members
\* of the node would
HandshakeKeepingSlots(connected) ==
    /\ pc = "handshake"
    /\ tcp_connected' = connected
    /\ sopas' = IF connected THEN << "authorize", "start" >> ELSE << >>
    /\ buffer_size' = RECV_BUFFER_SIZE
    /\ udp_recv_timeout' = BLOCKING
    /\ timestamp_last_udp_recv' = now
    /\ UNCHANGED << samples, filled_segments >>
    /\ pushed' = NoPushed
    /\ session' = [NewSession EXCEPT !.earlier = session.earlier \/ session.segs > 0]
    /\ ev' = Ev("session_start", Tag("none", << >>), 0, {})
    /\ pc' = LoopTest(is_running, connected)
    /\ wait_since' = now
    /\ UNCHANGED lifeUnchanged

\* the control channel is opened, the start commands are sent when it is
\* connected, the locals of the session are initialised and the condition of
\* the streaming loop is tested for the first time
Handshake(connected) ==
    /\ pc = "handshake"
    /\ tcp_connected' = connected
    /\ sopas' = IF connected THEN << "authorize", "start" >> ELSE << >>
    /\ buffer_size' = RECV_BUFFER_SIZE
    /\ udp_recv_timeout' = BLOCKING
    /\ timestamp_last_udp_recv' = now
    /\ samples' = NoSamples
    /\ filled_segments' = 0
    /\ pushed' = NoPushed
    /\ session' = [NewSession EXCEPT !.earlier = session.earlier \/ session.segs > 0]
    /\ ev' = Ev("session_start", Tag("none", << >>), 0, {})
    /\ pc' = LoopTest(is_running, connected)
    /\ wait_since' = now
    /\ UNCHANGED lifeUnchanged

\* a plausible slip: the stop commands are sent only while the node runs
StopCommandsIfRunning ==
    IF tcp_connected /\ is_running THEN << "authorize", "stop" >> ELSE << >>

\* if(sopas_tcp.isConnected()) sendAuthorization, sendMultiScanStopCmd
StopCommands == IF tcp_connected THEN << "authorize", "stop" >> ELSE << >>

\* after the loop and the catch: the stop commands when still connected; the
\* control channel object goes out of scope
StopStream ==
    /\ pc = "stopping"
    /\ sopas' = sopas \o StopCommands
    /\ tcp_connected' = FALSE
    /\ pc' = "backoff"
    /\ UNCHANGED << lifeUnchanged, wait_since, buffer_size, udp_recv_timeout,
                    timestamp_last_udp_recv, samples, filled_segments, pushed,
                    session, ev >>

\* a plausible slip: the delay is left out
BackoffNoSleep ==
    /\ pc = "backoff"
    /\ pc' = "top"
    /\ ev' = Ev(IF is_running THEN "backoff_wait" ELSE "backoff_skipped",
                Tag("none", << >>), 0, {})
    /\ wait_since' = now
    /\ UNCHANGED << lifeUnchanged, tcp_connected, buffer_size, udp_recv_timeout,
                    timestamp_last_udp_recv, samples, filled_segments, sopas,
                    pushed, session >>

\* if(this->is_running) sleep_for(error_restart_timeout)
Backoff ==
    /\ pc = "backoff"
    /\ pc' = IF is_running THEN "sleep" ELSE "top"
    /\ ev' = Ev(IF is_running THEN "backoff_wait" ELSE "backoff_skipped",
                Tag("none", << >>), 0, {})
    /\ wait_since' = now
    /\ UNCHANGED << lifeUnchanged, tcp_connected, buffer_size, udp_recv_timeout,
                    timestamp_last_udp_recv, samples, filled_segments, sopas,
                    pushed, session >>

\* sleep_for returns: the whole delay has passed
SleepEnd ==
    /\ pc = "sleep"
    /\ now - wait_since >= error_restart_timeout
    /\ pc' = "top"
    /\ ev' = Ev("backoff_done", Tag("none", << >>), 0, {})
    /\ UNCHANGED << lifeUnchanged, wait_since, tcp_connected, buffer_size,
                    udp_recv_timeout, timestamp_last_udp_recv, samples,
                    filled_segments, sopas, pushed, session >>

-----------------------------------------------------------------------------
(* The streaming loop: the Receive calls and what they return *)

streamUnchanged == << configVars, callerVars, tcp_connected, sopas >>

\* the thread, past the test of the loop, enters udp_recv_socket.Receive: from
\* here on the wait is in flight
CallReceive ==
    /\ pc \in {"call_recv", "call_chunk"}
    /\ pc' = IF pc = "call_recv" THEN "recv" ELSE "chunk"
    /\ wait_since' = now
    /\ UNCHANGED << streamUnchanged, now, cancel, udp_buffer, bytes_received,
                    buffer_size, udp_recv_timeout, timestamp_last_udp_recv,
                    recv_start_timestamp, num_bytes_required, samples,
                    filled_segments, scan_pub, imu_pub, pushed, delivered,
                    session, ev, wire >>

\* the outer Receive returns the first piece of a new datagram
ReceiveDatagram(pieces, tag, stall, ub) ==
    /\ pc = "recv"
    /\ wire = << >>
    /\ delivered < MaxDelivered
    /\ now + stall <= MaxTime
    /\ Demultiplex(Head(pieces), Len(Head(pieces)), tag, stall, ub)
    /\ wire' = Tail(pieces)
    /\ delivered' = delivered + 1
    /\ UNCHANGED << streamUnchanged, buffer_size, cancel >>

\* the outer Receive returns a piece that the accumulation left in flight
ReceiveLeftover(stall, ub) ==
    /\ pc = "recv"
    /\ wire # << >>
    /\ now + stall <= MaxTime
    /\ Demultiplex(Head(wire), Len(Head(wire)), Tag("leftover", << >>), stall, ub)
    /\ wire' = Tail(wire)
    /\ UNCHANGED << streamUnchanged, buffer_size, cancel, delivered >>

\* the outer Receive returns 0: its timeout has expired
ReceiveTimeout ==
    /\ pc = "recv"
    /\ udp_recv_timeout >= 0
    /\ now - wait_since >= udp_recv_timeout
    /\ Drop("zero", Tag("none", << >>), 0)
    /\ UNCHANGED << streamUnchanged, buffer_size, cancel, delivered, wire >>

\* the outer Receive returns 0: ForceStop() has unblocked it
ReceiveCancelled ==
    /\ pc = "recv"
    /\ cancel
    /\ cancel' = FALSE
    /\ Drop("zero", Tag("none", << >>), 0)
    /\ UNCHANGED << streamUnchanged, buffer_size, delivered, wire >>

\* after a chunk Receive: the chunk is inserted at bytes_received, then the
\* condition of the inner loop, then that of the accumulation loop
AfterChunk(chunk, stall, ub) ==
    LET buf == udp_buffer \o chunk
        n   == bytes_received + Len(chunk)
        cnt == ev.chunks + B2I(chunk # << >>)   \* the chunks that brought bytes
    IN  /\ buffer_size' = buffer_size + Len(chunk)
        /\ IF NeedChunk(n, recv_start_timestamp, num_bytes_required)
           THEN Wait("call_chunk", buf, n, recv_start_timestamp, num_bytes_required,
                     ev.tag, cnt)
           ELSE Accumulate(buf, n, recv_start_timestamp, ev.tag, cnt, stall, ub)

\* the chunk Receive returns the next piece in flight
ReceiveChunk(stall, ub) ==
    /\ pc = "chunk"
    /\ wire # << >>
    /\ now + stall <= MaxTime
    /\ AfterChunk(Head(wire), stall, ub)
    /\ wire' = Tail(wire)
    /\ UNCHANGED << streamUnchanged, cancel, delivered >>

\* the chunk Receive returns 0: ForceStop() has unblocked it
ChunkCancelled(stall, ub) ==
    /\ pc = "chunk"
    /\ cancel
    /\ cancel' = FALSE
    /\ now + stall <= MaxTime
    /\ AfterChunk(<< >>, stall, ub)
    /\ UNCHANGED << streamUnchanged, delivered, wire >>

\* the chunk Receive returns 0 without ForceStop(): Receive(chunk_buffer) is
\* called without a timeout argument, and whether it can come back empty is
\* up to the receiver
ChunkZero(stall, ub) ==
    /\ pc = "chunk"
    /\ now + stall <= MaxTime
    /\ AfterChunk(<< >>, stall, ub)
    /\ UNCHANGED << streamUnchanged, cancel, delivered, wire >>

\* the accumulation loop runs without receiving: its condition is tested again
Spin(stall, ub) ==
    /\ pc = "spin"
    /\ now + stall <= MaxTime
    /\ ~is_running \/ ~TimeOk(now, recv_start_timestamp)
    /\ Accumulate(udp_buffer, bytes_received, recv_start_timestamp, ev.tag,
                  ev.chunks, stall, ub)
    /\ UNCHANGED << streamUnchanged, buffer_size, cancel, delivered, wire >>

-----------------------------------------------------------------------------
(* Environment *)

InSession == pc \in {"call_recv", "recv", "call_chunk", "chunk", "spin"}

\* the control channel is lost
TcpLoss ==
    /\ InSession
    /\ tcp_connected
    /\ tcp_connected' = FALSE
    /\ session' = [session EXCEPT !.lost = TRUE]
    /\ UNCHANGED << configVars, callerVars, now, wait_since, cancel, pc, udp_buffer,
                    bytes_received, buffer_size, udp_recv_timeout,
                    timestamp_last_udp_recv, recv_start_timestamp,
                    num_bytes_required, samples, filled_segments, scan_pub,
                    imu_pub, sopas, pushed, delivered, ev, wire >>

\* one second passes while the thread waits, sleeps or spins (the other steps
\* take no time); a Receive with a timeout returns when the timeout expires
\* and the spinning loop ends when its condition fails
Tick ==
    /\ now < MaxTime
    /\ pc \in {"recv", "chunk", "spin", "sleep"}
    /\ ~(pc = "recv" /\ udp_recv_timeout >= 0 /\ now - wait_since >= udp_recv_timeout)
    /\ ~(pc = "spin" /\ (~is_running \/ ~TimeOk(now, recv_start_timestamp)))
    /\ now' = now + 1
    /\ UNCHANGED << configVars, callerVars, wait_since, cancel, threadVars >>

\* the clock for the runs that are followed without an end: it counts up to
\* MaxTime; from there on a second that passes moves the time stamps back
\* instead, so that every difference the program computes stays exact up to
\* MaxTime, which is above every timeout and threshold of the program
Earlier(t) == IF t > 0 THEN t - 1 ELSE 0

TickLive ==
    /\ pc \in {"recv", "chunk", "spin", "sleep"}
    /\ ~(pc = "recv" /\ udp_recv_timeout >= 0 /\ now - wait_since >= udp_recv_timeout)
    /\ ~(pc = "spin" /\ (~is_running \/ ~TimeOk(now, recv_start_timestamp)))
    /\ IF now < MaxTime
       THEN /\ now' = now + 1
            /\ UNCHANGED << wait_since, timestamp_last_udp_recv, recv_start_timestamp >>
       ELSE /\ now' = now
            /\ wait_since' = Earlier(wait_since)
            /\ timestamp_last_udp_recv' = Earlier(timestamp_last_udp_recv)
            /\ recv_start_timestamp' = Earlier(recv_start_timestamp)
    /\ UNCHANGED << configVars, callerVars, cancel, pc, tcp_connected, udp_buffer,
                    bytes_received, buffer_size, udp_recv_timeout,
                    num_bytes_required, samples, filled_segments, scan_pub,
                    imu_pub, sopas, pushed, delivered, session, ev, wire >>

-----------------------------------------------------------------------------
(* The datagrams the sensor and the network deliver *)

\* the revolution starts at segment 7: its time stamp is the earliest
StampCode(i) == (i + 5) % MS100_SEGMENTS_PER_FRAME

\* the indices that also receive duplicates and segments of varying content
HotIdx == {0}

DefaultBody(i) == << i, 1, StampCode(i), 1, 0 >>  \* one point group, no inertial sample
AltBody(i)     == << i, 0, 249 - i, 2, 1 >>  \* earlier, two groups, inertial sample
ImuBody(i)     == << i, 1, i, 0, 1 >>        \* inertial sample only
BadBody(i)     == << i, 1, i, 1, 2 >>        \* the decoder fails on it

MsgpackDatagram(body) ==
    udp_msg_start_seq \o Enc4(Len(body)) \o body \o Enc4(crc32(body))

CompactMessage(cmd, size, body) == udp_msg_start_seq \o Enc4(cmd) \o size \o body

CompactDatagram(body) ==
    LET msg == CompactMessage(1, Enc4(Len(body)), body)
    IN  msg \o Enc4(crc32(msg))

Datagram(body) ==
    IF use_msgpack THEN MsgpackDatagram(body) ELSE CompactDatagram(body)

HeaderLen == IF use_msgpack THEN MSGPACK_HEADER_LEN ELSE COMPACT_HEADER_LEN

\* one bit of the byte at position pos (1-based) is inverted
FlipBit(dg, pos, bit) ==
    [dg EXCEPT ![pos] = IF Bit(@, bit) = 1 THEN @ - Pow2(bit) ELSE @ + Pow2(bit)]

\* the datagram arrives in 1 + k pieces: the first bytes, then k chunks
RECURSIVE Chunks(_, _)
Chunks(rest, k) ==
    IF k <= 1 THEN << rest >>
    ELSE LET c == Len(rest) \div k
         IN  << SubSeq(rest, 1, c) >> \o Chunks(SubSeq(rest, c + 1, Len(rest)), k - 1)

Split(dg, first, k) ==
    << SubSeq(dg, 1, first) >> \o Chunks(SubSeq(dg, first + 1, Len(dg)), k)

Input(pieces, kind) == [pieces |-> pieces, tag |-> Tag(kind, << >>)]
Whole(dg, kind) == Input(<< dg >>, kind)
\* the same with the bytes as sent kept in the tag
Sent(pieces, kind, dg) == [pieces |-> pieces, tag |-> Tag(kind, dg)]
SentWhole(dg, kind) == Sent(<< dg >>, kind, dg)

\* Assembler runs: every index in any order; the indices of HotIdx also
\* repeated and with varying content, the others once per revolution
AsmInputs ==
    { Whole(Datagram(DefaultBody(i)), "valid") :
        i \in {j \in SegIdx : IF j \in HotIdx THEN Len(pushed[j]) <= MaxDepth
                              ELSE pushed[j] = << >>} }
    \cup { Whole(Datagram(AltBody(i)), "imu_points") :
        i \in {j \in HotIdx : Len(pushed[j]) <= MaxDepth /\ imu_pub < MaxImu} }
    \cup { Whole(Datagram(ImuBody(i)), "imu_only") :
        i \in {j \in HotIdx : imu_pub < MaxImu} }

\* a datagram with the given body that declares the length given by the
\* four bytes len4
DeclaringLen(len4, body) ==
    IF use_msgpack
    THEN udp_msg_start_seq \o len4 \o body \o Enc4(crc32(body))
    ELSE CompactMessage(1, len4, body)
             \o Enc4(crc32(CompactMessage(1, len4, body)))

\* a declared length of 2^32 - 8: the 32-bit sum with the header wraps
WrapLength == << 248, 255, 255, 255 >>

\* Lifecycle runs: the segments of a revolution in their order, intact, with
\* a wrong CRC or with a length that wraps, and one that arrives in two pieces
NextIdx == delivered % MS100_SEGMENTS_PER_FRAME

LifeInputs ==
    { Whole(Datagram(DefaultBody(NextIdx)), "valid"),
      Whole(FlipBit(Datagram(DefaultBody(NextIdx)), HeaderLen + BODY_LEN + 1, 0), "crc_bit"),
      Input(Split(Datagram(DefaultBody(NextIdx)), COMPACT_HEADER_LEN + 2, 1), "split"),
      Whole(CompactMessage(0, Enc4(BODY_LEN), DefaultBody(NextIdx)) \o Enc4(0), "bad_command"),
      Whole(DeclaringLen(WrapLength, DefaultBody(NextIdx)), "wrap_length") }


\* Demultiplexer runs: one segment, intact and damaged in every way
WireBody == DefaultBody(0)
WireDatagram == Datagram(WireBody)
BodyPos == (HeaderLen + 1) .. (HeaderLen + BODY_LEN)
CrcPos == (HeaderLen + BODY_LEN + 1) .. (HeaderLen + BODY_LEN + SIZEOF_UINT32)
FlippedBits == {0, 7}

\* the segment of the demultiplexer runs with a declared length of len4
Declaring(len4) == DeclaringLen(len4, WireBody)

\* a datagram in pieces: the probe-based encoding puts it together again, the
\* length-prefixed encoding takes the first piece for the datagram
SplitAsReceived ==
    IF use_msgpack THEN SubSeq(WireDatagram, 1, COMPACT_HEADER_LEN + 2) ELSE WireDatagram

WireInputs ==
    { SentWhole(WireDatagram, "valid"),
      SentWhole(Datagram(BadBody(0)), "undecodable"),
      SentWhole(FlipBit(WireDatagram, 1, 0), "bad_marker"),
      SentWhole(SubSeq(WireDatagram, 1, Len(udp_msg_start_seq) + 8), "short"),
      SentWhole(Declaring(Enc4(BODY_LEN - 1)), "bad_length"),
      SentWhole(Declaring(Enc4(BODY_LEN + 1)), "bad_length"),
      SentWhole(Declaring(WrapLength), "wrap_length"),
      SentWhole(CompactMessage(0, Enc4(BODY_LEN), WireBody) \o Enc4(0), "bad_command"),
      Sent(<< Declaring(Enc4(MAX_BYTES_REQUIRED - COMPACT_HEADER_LEN + 1)), << 7, 7 >> >>,
           "oversize", << >>),
      Sent(<< Declaring(Enc4(MAX_BYTES_REQUIRED - COMPACT_HEADER_LEN)), << 7, 7 >> >>,
           "at_cap", << >>) }
    \cup { SentWhole(FlipBit(WireDatagram, pos, bit), "payload_bit") :
             pos \in BodyPos, bit \in FlippedBits }
    \cup { SentWhole(FlipBit(WireDatagram, pos, bit), "crc_bit") :
             pos \in CrcPos, bit \in FlippedBits }
    \cup { Sent(Split(WireDatagram, COMPACT_HEADER_LEN + 2, k), "split",
                 SplitAsReceived) : k \in 1 .. MaxChunks }

UbOutcomes == {"throw", "crash"}

\* the stalls between the two clock reads of the timeout update: none, or
\* one longer than the dropout threshold
Stalls == {s \in {0, MaxStall} : now + s <= MaxTime}

-----------------------------------------------------------------------------
(* Specifications *)

\* the node of a build with the given point layout, after its constructor
\* and before start()
BuiltWith(sections, depths) ==
    /\ max_segment_buffering \in depths
    /\ use_msgpack \in BOOLEAN
    /\ sections_enabled = sections
    /\ is_running = TRUE
    /\ joinable = FALSE
    /\ scan_pub = << >>
    /\ imu_pub = 0
    /\ pc = "none"
    /\ tcp_connected = FALSE
    /\ udp_buffer = << >>
    /\ bytes_received = 0
    /\ buffer_size = 0
    /\ udp_recv_timeout = BLOCKING
    /\ timestamp_last_udp_recv = 0
    /\ recv_start_timestamp = 0
    /\ num_bytes_required = 0
    /\ samples = NoSamples
    /\ filled_segments = 0
    /\ main_pc = "idle"
    /\ n_threads = 0
    /\ now = 0
    /\ wait_since = 0
    /\ wire = << >>
    /\ cancel = FALSE
    /\ sopas = << >>
    /\ pushed = NoPushed
    /\ delivered = 0
    /\ session = NewSession
    /\ api = "none"
    /\ ev = NoEv

\* the same with a slot depth that bounds the slots
Built(sections) == BuiltWith(sections, 1 .. MaxDepth)

\* the node as the repository builds it
Init == Built(POINT_FIELD_SECTIONS_ENABLED)

\* the whole driver: lifecycle, caller, clock, segments in revolution order
Next ==
    \/ Start
    \/ ShutdownBegin
    \/ ForceStop
    \/ Join
    \/ ThreadTop
    \/ \E ok \in BOOLEAN : UdpInit(ok)
    \/ \E connected \in BOOLEAN : Handshake(connected)
    \/ StopStream
    \/ Backoff
    \/ SleepEnd
    \/ CallReceive
    \/ \E inp \in LifeInputs, stall \in Stalls :
           delivered < MaxLife /\ ReceiveDatagram(inp.pieces, inp.tag, stall, "throw")
    \/ \E stall \in Stalls : ReceiveLeftover(stall, "throw")
    \/ ReceiveTimeout
    \/ ReceiveCancelled
    \/ \E stall \in Stalls : ReceiveChunk(stall, "throw")
    \/ \E stall \in Stalls : ChunkCancelled(stall, "throw")
    \/ \E stall \in Stalls : Spin(stall, "throw")
    \/ TcpLoss
    \/ Tick

Spec == Init /\ [][Next]_vars

\* one session of the assembler: every arrival order of the twelve indices
NextAsm ==
    \/ MayStart /\ Start
    \/ ThreadTop
    \/ UdpInit(TRUE)
    \/ Handshake(TRUE)
    \/ CallReceive
    \/ \E inp \in AsmInputs : ReceiveDatagram(inp.pieces, inp.tag, 0, "throw")

InitAsm == Init /\ use_msgpack

SpecAsm == InitAsm /\ [][NextAsm]_vars

\* the demultiplexer on intact and damaged datagrams
NextWire ==
    \/ MayStart /\ Start
    \/ ThreadTop
    \/ UdpInit(TRUE)
    \/ Handshake(TRUE)
    \/ StopStream
    \/ Backoff
    \/ SleepEnd
    \/ CallReceive
    \/ \E inp \in WireInputs, ub \in UbOutcomes :
           delivered < MaxWire /\ ReceiveDatagram(inp.pieces, inp.tag, 0, ub)
    \/ \E ub \in UbOutcomes : ReceiveLeftover(0, ub)
    \/ ReceiveTimeout
    \/ \E ub \in UbOutcomes : ReceiveChunk(0, ub)
    \/ \E ub \in UbOutcomes : Spin(0, ub)
    \/ Tick

SpecWire == Init /\ [][NextWire]_vars

\* the lifecycle followed without an end: the segments of a revolution
\* arrive intact, or the sensor is silent
LiveInputs == { Whole(Datagram(DefaultBody(NextIdx)), "valid") }

NextLive ==
    \/ Start
    \/ ShutdownBegin
    \/ ForceStop
    \/ Join
    \/ ThreadTop
    \/ \E ok \in BOOLEAN : UdpInit(ok)
    \/ \E connected \in BOOLEAN : Handshake(connected)
    \/ StopStream
    \/ Backoff
    \/ SleepEnd
    \/ CallReceive
    \/ \E inp \in LiveInputs :
           delivered < MaxLife /\ ReceiveDatagram(inp.pieces, inp.tag, 0, "throw")
    \/ ReceiveTimeout
    \/ ReceiveCancelled
    \/ TcpLoss
    \/ TickLive

\* both threads are scheduled and the clock goes on: a step of the ingestion
\* thread or of shutdown() that stays possible is taken, a Receive whose
\* timeout has expired or that ForceStop() has unblocked returns.  Nothing
\* obliges the sensor to send, the control channel to fail or the owner to
\* call start() or shutdown().
Fairness ==
    /\ WF_vars(ThreadTop)
    /\ WF_vars(\E ok \in BOOLEAN : UdpInit(ok))
    /\ WF_vars(\E connected \in BOOLEAN : Handshake(connected))
    /\ WF_vars(StopStream)
    /\ WF_vars(Backoff)
    /\ WF_vars(SleepEnd)
    /\ WF_vars(CallReceive)
    /\ WF_vars(ReceiveTimeout)
    /\ WF_vars(ReceiveCancelled)
    /\ WF_vars(ForceStop)
    /\ WF_vars(Join)
    /\ WF_vars(TickLive)

SpecLive == Init /\ [][NextLive]_vars /\ Fairness

\* the layouts a build can select: one of the five additive levels, with or
\* without the time stamp and with or without reflectivity
Layouts ==
    { level + ts + refl :
        level \in POINT_FIELD_ENABLE_UP_TO_XYZ .. POINT_FIELD_ENABLE_UP_TO_POINT_IDX,
        ts \in {0, POINT_FIELD_ENABLE_TS},
        refl \in {0, POINT_FIELD_ENABLE_REFLECTOR} }

\* one revolution, segment by segment, in a build of every layout
InitLayout == \E sections \in Layouts : Built(sections)

NextLayout ==
    \/ MayStart /\ Start
    \/ ThreadTop
    \/ UdpInit(TRUE)
    \/ Handshake(TRUE)
    \/ CallReceive
    \/ \E inp \in LiveInputs : ReceiveDatagram(inp.pieces, inp.tag, 0, "throw")

SpecLayout == InitLayout /\ [][NextLayout]_vars

\* the chunk accumulation followed without an end, probe-based encoding: a
\* segment arrives whole or in pieces, or a message the probe refuses; the
\* pieces after the first arrive or are lost, and the chunk Receive may come
\* back empty
AccInputs ==
    { Whole(Datagram(DefaultBody(NextIdx)), "valid"),
      Whole(CompactMessage(0, Enc4(BODY_LEN), DefaultBody(NextIdx)) \o Enc4(0), "bad_command") }
    \cup { Input(Split(Datagram(DefaultBody(NextIdx)), COMPACT_HEADER_LEN + 2, k), "split") :
             k \in 1 .. MaxChunks }

\* a piece in flight is lost on the network
LosePiece ==
    /\ wire # << >>
    /\ pc \in {"chunk", "call_chunk"}
    /\ wire' = Tail(wire)
    /\ UNCHANGED << configVars, callerVars, now, wait_since, cancel, pc, tcp_connected,
                    udp_buffer, bytes_received, buffer_size, udp_recv_timeout,
                    timestamp_last_udp_recv, recv_start_timestamp,
                    num_bytes_required, samples, filled_segments, scan_pub,
                    imu_pub, sopas, pushed, delivered, session, ev >>

InitAcc == Init /\ ~use_msgpack

NextAcc ==
    \/ MayStart /\ Start
    \/ ThreadTop
    \/ UdpInit(TRUE)
    \/ Handshake(TRUE)
    \/ CallReceive
    \/ \E inp \in AccInputs :
           delivered < MaxLife /\ ReceiveDatagram(inp.pieces, inp.tag, 0, "throw")
    \/ ReceiveLeftover(0, "throw")
    \/ ReceiveTimeout
    \/ ReceiveChunk(0, "throw")
    \/ ChunkZero(0, "throw")
    \/ Spin(0, "throw")
    \/ LosePiece
    \/ TickLive

\* the thread is scheduled, a chunk Receive that has nothing to deliver comes
\* back empty, and the clock goes on whenever the thread waits.  Nothing
\* obliges the network to deliver the pieces of a datagram.
FairnessAcc ==
    /\ WF_vars(ThreadTop)
    /\ WF_vars(UdpInit(TRUE))
    /\ WF_vars(Handshake(TRUE))
    /\ WF_vars(CallReceive)
    /\ WF_vars(ReceiveTimeout)
    /\ WF_vars(ChunkZero(0, "throw"))
    /\ WF_vars(Spin(0, "throw"))
    /\ SF_vars(TickLive)

SpecAcc == InitAcc /\ [][NextAcc]_vars /\ FairnessAcc

\* length fields of the length-prefixed encoding, as 4 bytes little-endian:
\* 0, the right length and its neighbours, 2^31 - 1, and the values around
\* 2^32 - 12, from which on the 32-bit sum with the 12 bytes of marker, length
\* field and CRC wraps
LengthFields ==
    { Enc4(0), Enc4(BODY_LEN - 1), Enc4(BODY_LEN), Enc4(BODY_LEN + 1),
      << 255, 255, 255, 127 >>, << 243, 255, 255, 255 >>, << 244, 255, 255, 255 >>,
      WrapLength, << 255, 255, 255, 255 >> }

LenInputs ==
    { SentWhole(Declaring(len4),
                IF len4 = Enc4(BODY_LEN) THEN "valid" ELSE "declared_length") :
        len4 \in LengthFields }

\* the length-prefixed encoding on every length field
InitLen == Init /\ use_msgpack

NextLen ==
    \/ MayStart /\ Start
    \/ ThreadTop
    \/ UdpInit(TRUE)
    \/ Handshake(TRUE)
    \/ StopStream
    \/ Backoff
    \/ CallReceive
    \/ \E inp \in LenInputs, ub \in UbOutcomes :
           delivered < MaxWire /\ ReceiveDatagram(inp.pieces, inp.tag, 0, ub)
    \/ ReceiveTimeout
    \/ Tick

SpecLen == InitLen /\ [][NextLen]_vars

\* the values of the parameter max_segment_buffers: negative, zero, positive
DepthValues == -1 .. MaxDepth

\* revolutions, segment by segment, for every value of the slot depth; a call
\* of front() on an empty deque goes on silently or ends the process
InitDepth == BuiltWith(POINT_FIELD_SECTIONS_ENABLED, DepthValues)

NextDepth ==
    \/ MayStart /\ Start
    \/ ThreadTop
    \/ UdpInit(TRUE)
    \/ Handshake(TRUE)
    \/ CallReceive
    \/ \E inp \in LiveInputs, ub \in UbOutcomes :
           ReceiveDatagram(inp.pieces, inp.tag, 0, ub)

SpecDepth == InitDepth /\ [][NextDepth]_vars

-----------------------------------------------------------------------------
(* Properties *)

\* the fates of a datagram that the full segment decoder was called on
Decoded == {"decode_fail", "accepted", "frame"}

\* a complete datagram: valid resync marker, longer than marker + 8
Complete(dg) ==
    /\ Len(dg) > Len(udp_msg_start_seq) + 8
    /\ SubSeq(dg, 1, Len(udp_msg_start_seq)) = udp_msg_start_seq

\* the length the header of the datagram declares is the length it has
WellFramed(dg) ==
    /\ Complete(dg)
    /\ IF use_msgpack
       THEN Convert4BytePlus(dg, 4, MSGPACK_HEADER_LEN + SIZEOF_UINT32) = Len(dg)
       ELSE /\ Convert4Byte(dg, 4) = 1
            /\ Convert4BytePlus(dg, 8, COMPACT_HEADER_LEN + SIZEOF_UINT32) = Len(dg)

\* the checksum of the payload region of dg, computed by the receiver's rule,
\* is the one dg carries in its last four bytes
SentCrcOk(dg) ==
    Convert4Byte(dg, Len(dg) - SIZEOF_UINT32)
        = crc32(Range0(dg, IF use_msgpack THEN MSGPACK_HEADER_LEN ELSE 0,
                       Len(dg) - SIZEOF_UINT32))

\* C1: a complete datagram, once all its bytes are received, reaches the full
\* segment decoder if and only if the CRC32 over its payload region equals
\* its trailing CRC; a datagram whose payload or trailing CRC was changed is
\* rejected at the CRC check, before the decoder is called.
CrcGate ==
    LET dg == ev.tag.sent
    IN  (/\ dg # << >>
         /\ WellFramed(dg)
         /\ wire = << >>
         /\ ev.fate \notin {"accumulating", "abandoned"})
            => IF SentCrcOk(dg) THEN ev.fate \in Decoded ELSE ev.fate = "crc_fail"

\* a segment was accepted, then one with a changed payload bit was rejected
CrcGateWitness ==
    /\ ev.tag.kind = "payload_bit"
    /\ ev.fate = "crc_fail"
    /\ session.segs = 1

\* the smallest element of a non-empty set of numbers
SetMin(S) == CHOOSE t \in S : \A u \in S : t <= u

\* the frame published last
LastFrame == scan_pub[Len(scan_pub)]

\* C2: with slot depth d, after n segments with point groups were pushed to
\* index i since the last reset, slot i holds the min(n, d) most recently
\* pushed ones, newest at the front, and presence bit i is set; no slot holds
\* more than d entries.
SlotDepth ==
    \A i \in SegIdx :
        /\ samples[i] = Take(pushed[i], max_segment_buffering)
        /\ Len(samples[i]) = Min(Len(pushed[i]), max_segment_buffering)
        /\ Len(samples[i]) <= max_segment_buffering
        /\ pushed[i] # << >> => Bit(filled_segments, i) = 1

\* d + 1 segments, not all alike, were pushed to index 0 and d are left
SlotDepthWitness ==
    /\ Len(pushed[0]) = max_segment_buffering + 1
    /\ Len(samples[0]) = max_segment_buffering
    /\ max_segment_buffering = MaxDepth
    /\ \E k \in 1 .. max_segment_buffering : samples[0][k] # pushed[0][Len(pushed[0])]

\* C3: the frame builder runs after a decoded segment was processed if and
\* only if each of the twelve indices has received a segment with point
\* groups since the last reset, whatever the order and the duplicates.
FrameTrigger ==
    ev.fate \in {"accepted", "frame"} => (ev.fate = "frame" <=> ev.touched = SegIdx)

\* a frame was built in a session that saw a duplicate
FrameTriggerWitness ==
    /\ ev.fate = "frame"
    /\ session.dup
    /\ ev.touched = SegIdx

\* C4: right after a frame was built and published, the twelve slots are
\* empty and the presence mask is zero.
EmptyAfterFrame ==
    ev.fate = "frame" => (\A i \in SegIdx : samples[i] = << >>) /\ filled_segments = 0

\* the first frame of a session has just been published
EmptyAfterFrameWitness ==
    /\ ev.fate = "frame"
    /\ Len(scan_pub) = 1
    /\ filled_segments = 0

\* C5: the time stamp of a published frame, seconds and nanoseconds combined,
\* is the minimum over the twelve slots of the capture time stamp of the
\* front element at the moment the frame is built.
FrameStamp ==
    ev.fate = "frame" =>
        LastFrame.stamp_sec * NSEC_PER_SEC + LastFrame.stamp_nsec
            = SetMin({ev.fronts[i].timestamp_sec * NSEC_PER_SEC
                          + ev.fronts[i].timestamp_nsec : i \in SegIdx})

\* a frame whose earliest front element is neither in the first slot nor the
\* segment that completed it
FrameStampWitness ==
    /\ ev.fate = "frame"
    /\ LastFrame.stamp_sec = ev.fronts[7].timestamp_sec
    /\ LastFrame.stamp_nsec = ev.fronts[7].timestamp_nsec
    /\ ev.fronts[0].timestamp_nsec > ev.fronts[7].timestamp_nsec
    /\ session.dup

\* C8: twelve segments with the distinct indices 0 .. 11 and point groups,
\* accepted in one session in any order: no frame before the twelfth, one
\* frame with the twelfth, and its width is the sum of their point counts.
TwelveSegmentsOneFrame ==
    ~session.dup =>
        /\ session.segs < MS100_SEGMENTS_PER_FRAME => session.frames = 0 /\ scan_pub = << >>
        /\ session.segs = MS100_SEGMENTS_PER_FRAME =>
               /\ session.frames = 1
               /\ Len(scan_pub) = 1
               /\ LastFrame.width = session.pts
               /\ LastFrame.width * LastFrame.point_step = LastFrame.row_step

\* the twelfth of twelve segments of 900 points has just completed the frame
TwelveSegmentsOneFrameWitness ==
    /\ ~session.dup
    /\ session.segs = MS100_SEGMENTS_PER_FRAME
    /\ ev.fate = "frame"
    /\ LastFrame.width = MS100_SEGMENTS_PER_FRAME * MS100_POINTS_PER_SEGMENT_ECHO

\* the time between the last refresh of the last-receive clock and the moment
\* the pending outer receive was issued
ElapsedAtReceive == wait_since - timestamp_last_udp_recv

BlockingAfterThreshold ==
    (pc = "recv" /\ ElapsedAtReceive > udp_dropout_reset_thresh)
        => udp_recv_timeout = BLOCKING

\* the variables of the program, without the record of the last call
progVars == << max_segment_buffering, use_msgpack, sections_enabled, is_running, joinable, scan_pub,
              imu_pub, pc, tcp_connected, udp_buffer, bytes_received, buffer_size,
              udp_recv_timeout, timestamp_last_udp_recv, recv_start_timestamp,
              num_bytes_required, samples, filled_segments, main_pc, n_threads,
              now, wait_since, wire, cancel, sopas, pushed, delivered, session, ev >>

\* C10: at most one ingestion thread exists at any time, and a start() called
\* while a thread is running creates no thread and changes no state.
StartIdempotent ==
    /\ [](n_threads <= 1)
    /\ [][(joinable /\ api # "start_noop" /\ api' = "start_noop")
              => UNCHANGED progVars]_vars
    /\ [][(api # "start_created" /\ api' = "start_created")
              => (~joinable /\ n_threads = 0 /\ n_threads' = 1)]_vars

\* start() was called while the thread was in the streaming loop
StartIdempotentWitness ==
    /\ api = "start_noop"
    /\ pc = "recv"
    /\ session.decoded
    /\ n_threads = 1

\* C9: with the probe-based encoding, a datagram that needs at most 1 MiB and
\* whose missing bytes arrive in k >= 1 further raw receives is completed
\* and passed on to the CRC check and the decoder; one whose probe asks for
\* more than 1 MiB is abandoned at once, with no chunk received for it and
\* without CRC check, decoding or push.
ProbeAccumulation ==
    ~use_msgpack =>
        /\ (ev.tag.kind = "split" /\ wire = << >>)
               => (ev.fate \in Decoded /\ ev.chunks >= 1)
        /\ ev.tag.kind = "at_cap" => ev.fate \in {"accumulating", "abandoned"}
        /\ ev.tag.kind = "oversize"
               => (ev.fate = "abandoned_cap" /\ ev.chunks = 0 /\ wire # << >>)
        /\ ev.fate = "abandoned_cap"
               => (ev.chunks = 0 /\ ev.touched = Touched(pushed)
                     /\ pc \in {"call_recv", "recv", "stopping"})

\* a datagram that came in a first piece and three chunks was decoded
ProbeAccumulationWitness ==
    /\ ~use_msgpack
    /\ ev.tag.kind = "split"
    /\ ev.chunks = MaxChunks
    /\ ev.fate = "accepted"
    /\ session.segs = 1

\* C11: a shutdown() that is called while the ingestion thread exists returns:
\* in every interleaving of its three steps with the steps of the thread, the
\* thread ends and is joined; it is never left blocked in a receive.
ShutdownReturns ==
    (main_pc = "sd_forcestop" /\ joinable) ~> (main_pc = "idle" /\ ~joinable)

\* C12: once shutdown() has cleared the flag and called ForceStop() while the
\* thread is in the backoff delay with part of the delay still to come, the
\* thread does not sleep on: no further second passes with the thread asleep.
BackoffCutShort ==
    [][(pc = "sleep" /\ main_pc = "sd_join"
          /\ now - wait_since < error_restart_timeout) => now' = now]_vars

\* C18: when the control channel is lost during streaming and no shutdown is
\* requested, the thread leaves the streaming loop and comes to the next
\* handshake, whether or not another datagram arrives.
RestartAfterLoss ==
    (InSession /\ ~tcp_connected) ~> (pc = "udp_init" \/ ~is_running)

\* the connection state of the lifecycle controller at each position of the
\* ingestion thread
ConnectionState ==
    CASE pc \in {"none", "top", "exit"} -> "Disconnected"
      [] pc \in {"udp_init", "handshake"} -> "Handshaking"
      [] InSession -> "Streaming"
      [] pc = "stopping" -> "StoppingGracefully"
      [] pc \in {"backoff", "sleep"} -> "BackoffWait"
      [] OTHER -> "Terminated"

CycleEdges ==
    { << "Disconnected", "Handshaking" >>, << "Handshaking", "Streaming" >>,
      << "Streaming", "StoppingGracefully" >>, << "StoppingGracefully", "BackoffWait" >>,
      << "BackoffWait", "Disconnected" >> }

\* a handshake that fails: the control channel is not connected, or the UDP
\* receiver cannot be opened
FailedHandshakeEdges ==
    { << "Handshaking", "StoppingGracefully" >>, << "Handshaking", "BackoffWait" >> }

\* every change of the connection state made while no shutdown is requested
\* is one of the given edges
ChangesAlong(edges) ==
    (is_running /\ is_running' /\ ConnectionState' # ConnectionState)
        => << ConnectionState, ConnectionState' >> \in edges

\* a Receive is called or pending only in a session in which authorization
\* and the start command were sent on the connected control channel
ReceiveAfterStart ==
    pc \in {"call_recv", "recv", "call_chunk", "chunk"}
        => (sopas = << "authorize", "start" >> /\ (tcp_connected \/ session.lost))

\* C13 as stated: while no shutdown is requested, the connection state
\* changes only along the cycle Disconnected, Handshaking, Streaming,
\* StoppingGracefully, BackoffWait, Disconnected, and a UDP receive is issued
\* only after authorization and start command were sent in the session.
StrictLifecycleCycle ==
    [][ChangesAlong(CycleEdges)]_vars /\ []ReceiveAfterStart

\* C13: the same, where a handshake that fails leaves the cycle short: from
\* Handshaking to StoppingGracefully when the control channel is not
\* connected, from Handshaking to BackoffWait when the UDP receiver cannot be
\* opened; in neither case is a receive issued.
LifecycleCycle ==
    [][ChangesAlong(CycleEdges \cup FailedHandshakeEdges)]_vars /\ []ReceiveAfterStart

\* a second session has begun to receive, after the backoff delay that
\* followed a session in which a datagram was delivered
LifecycleCycleWitness ==
    /\ pc = "recv"
    /\ is_running
    /\ ev.fate = "session_start"
    /\ delivered >= 1
    /\ timestamp_last_udp_recv >= error_restart_timeout
    /\ sopas = << "authorize", "start" >>

\* the last command that was sent on the control channel
LastCommand == IF sopas = << >> THEN "none" ELSE sopas[Len(sopas)]

\* a session was left properly: no start command was sent in it, or the stop
\* command was sent after it, or the control channel was lost
LeftProperly == sopas = << >> \/ LastCommand = "stop" \/ session.lost

\* C14: whenever the controller has left Streaming with the control channel
\* still connected, the stop command was sent before BackoffWait or the end
\* of the thread; so a start command is only sent when the session before it
\* ended with a stop command or with the loss of the control channel.
StopBeforeBackoff ==
    /\ []((~InSession /\ pc # "stopping") => LeftProperly)
    /\ [][(pc = "stopping" /\ pc' # "stopping" /\ tcp_connected)
              => sopas' = sopas \o << "authorize", "stop" >>]_vars
    /\ [][(sopas' # sopas /\ LastCommand' = "start") => LeftProperly]_vars

\* a fault of the streaming loop was caught and the stop command sent
StopBeforeBackoffWitness ==
    /\ pc = "backoff"
    /\ ev.fate = "fault"
    /\ LastCommand = "stop"
    /\ ~session.lost

\* the senders' labels of segments that carry a valid inertial sample
ImuKinds == {"imu_points", "imu_only"}

\* the number of inertial outputs among the outputs of one iteration
ImuCount(outputs) == Cardinality({k \in 1 .. Len(outputs) : outputs[k] = "imu"})

\* C15: every decoded segment with a valid inertial sample causes exactly one
\* inertial output, published in the iteration that processes the segment and
\* before the frame this segment completes, with or without point groups; a
\* segment without one causes none; no slot entry holds an inertial sample.
ImuForwarded ==
    /\ [](ev.fate \in {"accepted", "frame"} =>
            IF ev.tag.kind \in ImuKinds
            THEN /\ ImuCount(ev.outputs) = 1
                 /\ Head(ev.outputs) = "imu"
            ELSE ImuCount(ev.outputs) = 0)
    /\ [](\A i \in SegIdx : \A k \in 1 .. Len(samples[i]) : ~samples[i][k].imu_valid)
    /\ [][imu_pub' = imu_pub + (IF delivered' # delivered /\ ev'.tag.kind \in ImuKinds
                                  THEN 1 ELSE 0)]_vars

\* a segment with point groups and an inertial sample has completed a frame:
\* the inertial output came first, and the segment is not the front of slot 0
ImuForwardedWitness ==
    /\ ev.fate = "frame"
    /\ ev.tag.kind = "imu_points"
    /\ ev.outputs = << "imu", "frame" >>
    /\ imu_pub = 1

\* the senders' labels of the datagrams that fail
FailureKinds ==
    {"bad_marker", "short", "bad_length", "wrap_length", "bad_command",
     "payload_bit", "crc_bit", "undecodable"}

\* C16: a datagram that fails (resync marker, length, declared payload
\* length, probe, CRC, decoder) is dropped inside the streaming loop: the
\* thread stays in the loop, the slots and the presence mask are unchanged.
FailuresAbsorbed ==
    [][(delivered' = delivered + 1 /\ ev'.tag.kind \in FailureKinds)
          => (InSession' /\ UNCHANGED << samples, filled_segments >>)]_vars

\* the level of a layout and the 32-bit scalars a point has at each level:
\* xyz; + intensity; + range; + azimuth, elevation; + layer, echo, index
Level(sections) == sections % 8

ScalarsUpTo(level) == << 3, 4, 5, 7, 10 >>[level + 1]

\* the 32-bit scalars of a layout, the 64-bit time stamp counting as two
EnabledScalars(sections) ==
    ScalarsUpTo(Level(sections))
        + 2 * Bit(sections, 3) + Bit(sections, 4)

\* C17: in every layout the record stride of a published frame is 4 bytes
\* times the number of enabled 32-bit scalars, and the number of declared
\* fields times 4 is the stride; xyz + intensity has a stride of 16 bytes.
StrideByLayout ==
    ev.fate = "frame" =>
        /\ LastFrame.point_step = 4 * EnabledScalars(sections_enabled)
        /\ LastFrame.fields * 4 = LastFrame.point_step

\* C19: a frame holds, index by index, the points of the newest segment
\* pushed to each index and no others: its width is the sum of their point
\* counts; the entries queued behind the fronts are gone with the fronts
\* when the frame is built.
FrontsOnly ==
    ev.fate = "frame" =>
        /\ \A i \in SegIdx : LastFrame.segments[i] = ev.fronts[i]
        /\ LastFrame.width =
               SumSeq([k \in 1 .. MS100_SEGMENTS_PER_FRAME |-> NumPoints(ev.fronts[k - 1])],
                      MS100_SEGMENTS_PER_FRAME)
        /\ \A i \in SegIdx : samples[i] = << >>

\* a frame of twelve fronts of 900 points was built while a segment of 1800
\* points was queued behind the front of slot 0
FrontsOnlyWitness ==
    /\ ev.fate = "frame"
    /\ session.dup
    /\ max_segment_buffering = MaxDepth
    /\ LastFrame.width = MS100_SEGMENTS_PER_FRAME * MS100_POINTS_PER_SEGMENT_ECHO
    /\ session.pts = LastFrame.width + 2 * MS100_POINTS_PER_SEGMENT_ECHO

\* C20: a receive that returns zero bytes leaves the last-receive clock, the
\* slots and the presence mask as they are.
ZeroReceiveChangesNothing ==
    [][(pc = "recv" /\ pc' # "recv" /\ ev'.fate = "zero")
          => UNCHANGED << timestamp_last_udp_recv, samples, filled_segments >>]_vars

\* a receive has returned zero bytes a second after a segment was pushed
ZeroReceiveChangesNothingWitness ==
    /\ ev.fate = "zero"
    /\ session.segs >= 1
    /\ filled_segments # 0
    /\ now > timestamp_last_udp_recv

\* the chunk accumulation of a datagram is going on
Accumulating == pc \in {"call_chunk", "chunk", "spin"}

\* C21: probe-based encoding, the node keeps running: a chunk accumulation
\* that has begun comes to an end, whatever the receive timeout was when it
\* began, also when the chunk receives bring no bytes.
AccumulationEnds == Accumulating ~> ~Accumulating

\* C22: while no shutdown is requested, the thread starts a handshake attempt
\* only as its first attempt or after a backoff delay that has run its whole
\* time since the attempt before, however that attempt ended; and the thread
\* ends only at the test of the running flag, with the flag cleared.
BackoffBetweenAttempts ==
    /\ [][(pc' = "udp_init" /\ pc # "udp_init")
              => (pc = "top" /\ is_running /\ ev.fate \in {"none", "backoff_done"})]_vars
    /\ [][(ev' # ev /\ ev'.fate = "backoff_done")
              => (pc = "sleep" /\ ev.fate = "backoff_wait"
                    /\ now - wait_since >= error_restart_timeout)]_vars
    /\ [][(pc' = "top" /\ pc # "top")
              => \/ pc = "none" /\ ev'.fate = "none"
                 \/ pc = "sleep" /\ ev'.fate = "backoff_done"
                 \/ pc = "backoff" /\ ~is_running /\ ev'.fate = "backoff_skipped"]_vars
    /\ [][(pc' = "exit" /\ pc # "exit") => (pc = "top" /\ ~is_running)]_vars

\* a second attempt begins after an attempt that failed to open the UDP
\* socket and a backoff delay that has passed
BackoffBetweenAttemptsWitness ==
    /\ pc = "udp_init"
    /\ ev.fate = "backoff_done"
    /\ is_running
    /\ now >= error_restart_timeout
    /\ delivered = 0

\* C23: in every state a set presence bit i goes with a non-empty slot i, so
\* that the frame builder, which runs when all twelve bits are set, finds a
\* front element in each slot; for every value of max_segment_buffering.
PresenceImpliesFront ==
    \A i \in SegIdx : Bit(filled_segments, i) = 1 => samples[i] # << >>

\* the mask with exactly the bits of the set S
RECURSIVE MaskOf(_)
MaskOf(S) ==
    IF S = {} THEN 0
    ELSE LET i == CHOOSE x \in S : TRUE IN Pow2(i) + MaskOf(S \ {i})

FullMask == Pow2(MS100_SEGMENTS_PER_FRAME) - 1

\* C24: for the segment indices the decoder returns (0 .. 11), every slot
\* that is touched is one of the twelve, the presence mask holds exactly the
\* bits of the indices pushed since the last reset and never a bit above bit
\* 11, and the trigger fires only in a step that makes the mask equal to 4095.
MaskWithinTwelveBits ==
    /\ [](DOMAIN samples = SegIdx)
    /\ [](filled_segments = MaskOf(Touched(pushed)) /\ filled_segments < FullMask)
    /\ [][scan_pub' # scan_pub
              => \E i \in SegIdx :
                    /\ ev'.touched = Touched(pushed) \cup {i}
                    /\ BitOr(filled_segments, i) = FullMask]_vars
    /\ [][(delivered' # delivered /\ MaskOf(ev'.touched) >= FullMask)
              => (scan_pub' # scan_pub /\ ev'.touched = SegIdx)]_vars

\* a frame was built in a revolution in which an index arrived twice
MaskWithinTwelveBitsWitness ==
    /\ Len(scan_pub) = 1
    /\ session.dup
    /\ ev.fate = "frame"
    /\ ev.touched = SegIdx
    /\ filled_segments = 0

\* C25: length-prefixed encoding, every value of the length field: the
\* message length, the declared length + 12 in 32-bit arithmetic, has not
\* wrapped (it is 12 or more); the CRC region [8, bytes_valid - 4) is well
\* formed; a datagram with a wrong length field is rejected by the CRC check
\* and no datagram makes the thread leave the streaming loop.
DeclaredLengthSafe ==
    LET dg          == ev.tag.sent
        n           == Len(dg)
        len         == Convert4BytePlus(dg, Len(udp_msg_start_seq),
                                        Len(udp_msg_start_seq) + 2 * SIZEOF_UINT32)
        bytes_valid == Min(n, len)
    IN  (ev.tag.kind \in {"valid", "declared_length"} /\ ev.fate # "none")
            => /\ len >= Len(udp_msg_start_seq) + 2 * SIZEOF_UINT32
               /\ MSGPACK_HEADER_LEN <= bytes_valid - SIZEOF_UINT32
               /\ bytes_valid - SIZEOF_UINT32 <= n
               /\ ev.tag.kind = "declared_length" => ev.fate = "crc_fail"
               /\ ev.fate # "fault"
               /\ pc \in {"call_recv", "recv"}

\* C26: shutdown() can be called in every state of the node: it comes to
\* recv_thread.join() only with a joinable thread, and it never ends by an
\* exception.
ShutdownAnywhere ==
    /\ main_pc = "sd_join" => joinable
    /\ main_pc # "threw"

\* C27: every session starts with twelve empty slots and a zero mask, and
\* in a session the slots and the mask hold nothing but what was pushed in
\* this session since its last frame: no segment of an earlier session is in
\* a slot, sets a bit or reaches a frame.
SessionStartsEmpty ==
    /\ [][(pc = "handshake" /\ pc' # "handshake")
              => (samples' = NoSamples /\ filled_segments' = 0)]_vars
    /\ [](InSession =>
            \A i \in SegIdx :
                /\ samples[i] = Take(pushed[i], max_segment_buffering)
                /\ Bit(filled_segments, i) = B2I(pushed[i] # << >>))

\* a session after a reconnect has pushed its first segment; the session
\* before it had pushed one too
SessionStartsEmptyWitness ==
    /\ session.earlier
    /\ session.segs = 1
    /\ ev.fate = "accepted"
    /\ InSession

\* the byte offset scan_fields declares for the field of the given name
OffsetOf(frame, name) ==
    (CHOOSE f \in frame.scan_fields : f.name = name).offset

\* the write w and the declared field f share a byte
Overlaps(w, f) == w.from < f.offset + 4 /\ f.offset < w.from + w.len

\* the names of the fields a write is meant for
FieldsOf(what) ==
    CASE what = "lidar_timestamp_microsec" -> {"tl", "th"}
      [] what = "reflectorbit" -> {"reflective"}
      [] OTHER -> {}

\* C28: in every layout with the time stamp or the reflectivity, the frame
\* builder writes the 64-bit time stamp at the offset declared for "tl" and
\* the reflectivity at the offset declared for "reflective", and neither
\* write shares a byte with x, y, z or any other declared field.
AppendedFieldsInPlace ==
    \A k \in 1 .. Len(scan_pub) :
        LET frame == scan_pub[k]
        IN  \A w \in frame.writes :
              w.what # "point" =>
                /\ w.what = "lidar_timestamp_microsec" => w.from = OffsetOf(frame, "tl")
                /\ w.what = "reflectorbit" => w.from = OffsetOf(frame, "reflective")
                /\ \A f \in frame.scan_fields :
                      Overlaps(w, f) => f.name \in FieldsOf(w.what)
                /\ w.from + w.len <= frame.point_step

\* C29: at every outer receive of a session the working buffer has its
\* initial length RECV_BUFFER_SIZE: the bytes inserted during the chunk
\* accumulation of one datagram do not stay in it for the next datagram.
BufferKeepsLength ==
    pc \in {"call_recv", "recv"} => buffer_size = RECV_BUFFER_SIZE

====
